---------------------------- MODULE Spec2Model ----------------------------
(***************************************************************************)
(* Business calendar engine of scripts/workdates: holidays_provider.py     *)
(* (closure files, holiday provider, the two module caches, the blocked-   *)
(* date aggregation) and workdays.py (inclusive working-day count).        *)
(*                                                                         *)
(* A date is its proleptic Gregorian ordinal (datetime.date.toordinal():   *)
(* 0001-01-01 is 1), a text is a TLA+ string read character by character,  *)
(* a Python set is a TLA+ set, a dict is a function on its present keys.   *)
(***************************************************************************)
EXTENDS Integers, Sequences, FiniteSets, TLC

(***************************************************************************)
(* datetime.date arithmetic                                                *)
(***************************************************************************)
MINYEAR == 1
MAXYEAR == 9999

IsLeap(y) == (y % 4 = 0) /\ ((y % 100 # 0) \/ (y % 400 = 0))

DaysInMonth(y, m) ==
    IF m = 2 THEN (IF IsLeap(y) THEN 29 ELSE 28)
    ELSE IF m \in {4, 6, 9, 11} THEN 30 ELSE 31

\* Days before January 1st of year y.
DaysBeforeYear(y) ==
    (y - 1) * 365 + ((y - 1) \div 4) - ((y - 1) \div 100) + ((y - 1) \div 400)

\* Days of year y before the first of month m (datetime's _DAYS_BEFORE_MONTH).
DaysBeforeMonth(y, m) ==
    <<0, 31, 59, 90, 120, 151, 181, 212, 243, 273, 304, 334>>[m]
        + (IF m > 2 /\ IsLeap(y) THEN 1 ELSE 0)

\* date(y, m, d).toordinal()
ToOrdinal(y, m, d) == DaysBeforeYear(y) + DaysBeforeMonth(y, m) + d

\* date.max.toordinal(): date + timedelta past it raises OverflowError.
MaxOrdinal == ToOrdinal(MAXYEAR, 12, 31)

\* date.fromordinal(n).year
YearOf(n) ==
    LET e == (400 * n) \div 146097 + 1 IN
    CHOOSE y \in (e - 1)..(e + 1) :
        DaysBeforeYear(y) < n /\ n <= DaysBeforeYear(y + 1)

\* date.fromordinal(n).weekday(): Monday is 0, Sunday is 6.
Weekday(n) == (n + 6) % 7

(***************************************************************************)
(* Text: str.strip, str.startswith, str.split, str.splitlines              *)
(***************************************************************************)
Ch(s, i) == SubSeq(s, i, i)

DigitChars == {"0", "1", "2", "3", "4", "5", "6", "7", "8", "9"}
NonZeroDigitChars == DigitChars \ {"0"}

DigitVal(c) == CHOOSE n \in 0..9 : Ch("0123456789", n + 1) = c

\* The characters str.strip() removes, among those the model's texts use.
Whitespace == {" ", "\t"}

RECURSIVE LStrip(_)
LStrip(s) ==
    IF Len(s) > 0 /\ Ch(s, 1) \in Whitespace
    THEN LStrip(SubSeq(s, 2, Len(s))) ELSE s

RECURSIVE RStrip(_)
RStrip(s) ==
    IF Len(s) > 0 /\ Ch(s, Len(s)) \in Whitespace
    THEN RStrip(SubSeq(s, 1, Len(s) - 1)) ELSE s

Strip(s) == RStrip(LStrip(s))

StartsWith(s, c) == Len(s) > 0 /\ Ch(s, 1) = c

\* Position of the first occurrence of character c in s, 0 when absent.
RECURSIVE IndexFrom(_, _, _)
IndexFrom(s, c, i) ==
    IF i > Len(s) THEN 0
    ELSE IF Ch(s, i) = c THEN i ELSE IndexFrom(s, c, i + 1)

IndexOf(s, c) == IndexFrom(s, c, 1)

\* s.split(c): the fields between the occurrences of c.
RECURSIVE Split(_, _)
Split(s, c) ==
    LET i == IndexOf(s, c) IN
    IF i = 0 THEN <<s>>
    ELSE <<SubSeq(s, 1, i - 1)>> \o Split(SubSeq(s, i + 1, Len(s)), c)

\* s.splitlines(): no last empty line after a final line break.
RECURSIVE SplitLines(_)
SplitLines(s) ==
    LET i == IndexOf(s, "\n") IN
    IF Len(s) = 0 THEN <<>>
    ELSE IF i = 0 THEN <<s>>
    ELSE <<SubSeq(s, 1, i - 1)>> \o SplitLines(SubSeq(s, i + 1, Len(s)))

(***************************************************************************)
(* datetime.strptime for the four formats of _parse_any_date               *)
(***************************************************************************)
\* No date: what _parse_any_date returns as None (ordinals start at 1).
NoDate == 0

\* The regular expression strptime compiles for one directive, matched
\* against a whole field (the fields hold no separator):
\*   %d  3[0-1]|[1-2]\d|0[1-9]|[1-9]| [1-9]
\*   %m  1[0-2]|0[1-9]|[1-9]
\*   %Y  \d\d\d\d
MatchDirective(dir, f) ==
    LET c1 == Ch(f, 1)
        c2 == Ch(f, 2)
    IN  CASE dir = "d" ->
                \/ Len(f) = 1 /\ c1 \in NonZeroDigitChars
                \/ /\ Len(f) = 2
                   /\ \/ c1 = "3" /\ c2 \in {"0", "1"}
                      \/ c1 \in {"1", "2"} /\ c2 \in DigitChars
                      \/ c1 = "0" /\ c2 \in NonZeroDigitChars
                      \/ c1 = " " /\ c2 \in NonZeroDigitChars
          [] dir = "m" ->
                \/ Len(f) = 1 /\ c1 \in NonZeroDigitChars
                \/ /\ Len(f) = 2
                   /\ \/ c1 = "1" /\ c2 \in {"0", "1", "2"}
                      \/ c1 = "0" /\ c2 \in NonZeroDigitChars
          [] dir = "Y" ->
                /\ Len(f) = 4
                /\ \A i \in 1..4 : Ch(f, i) \in DigitChars
          [] OTHER -> FALSE

\* int() of a matched field (a leading blank of %d is skipped).
RECURSIVE FieldVal(_)
FieldVal(f) ==
    IF Len(f) = 0 THEN 0
    ELSE IF Ch(f, Len(f)) = " " THEN 0
    ELSE FieldVal(SubSeq(f, 1, Len(f) - 1)) * 10 + DigitVal(Ch(f, Len(f)))

\* date(y, m, d).toordinal(), NoDate where date() raises ValueError.
DateOf(y, m, d) ==
    IF MINYEAR <= y /\ y <= MAXYEAR /\ d <= DaysInMonth(y, m)
    THEN ToOrdinal(y, m, d)
    ELSE NoDate

\* The number in the field of directive dir.
FieldOf(fields, dirs, dir) == FieldVal(fields[CHOOSE i \in 1..3 : dirs[i] = dir])

StrptimeFields(fields, dirs) ==
    IF /\ Len(fields) = 3
       /\ \A i \in 1..3 : MatchDirective(dirs[i], fields[i])
    THEN DateOf(FieldOf(fields, dirs, "Y"), FieldOf(fields, dirs, "m"),
                FieldOf(fields, dirs, "d"))
    ELSE NoDate

\* datetime.strptime(s, fmt).date() for fmt = "%a<sep>%b<sep>%c": the
\* ordinal, or NoDate where strptime raises ValueError.
Strptime(s, fmt) ==
    StrptimeFields(Split(s, Ch(fmt, 3)), <<Ch(fmt, 2), Ch(fmt, 5), Ch(fmt, 8)>>)

(***************************************************************************)
(* holidays_provider.py: closure files                                     *)
(***************************************************************************)
Formats == <<"%d/%m/%Y", "%Y-%m-%d", "%d-%m-%Y", "%m/%d/%Y">>

\* The first format that parses, in the order the loop tries them.
RECURSIVE TryFormats(_, _)
FirstDate(d, s, i) == IF d # NoDate THEN d ELSE TryFormats(s, i + 1)

TryFormats(s, i) ==
    IF i > Len(Formats) THEN NoDate
    ELSE FirstDate(Strptime(s, Formats[i]), s, i)

ParseStripped(s) ==
    IF Len(s) = 0 \/ StartsWith(s, "#") THEN NoDate ELSE TryFormats(s, 1)

\* _parse_any_date(s): an ordinal, or NoDate for None.
ParseAnyDate(s) == IF Len(s) = 0 THEN NoDate ELSE ParseStripped(Strip(s))

\* A normal return of the dates collected.
Loaded(dates) == [err |-> "none", dates |-> dates]

\* The loop `while d <= d2: dates.add(d); d += timedelta(days=1)`: after
\* adding d2 it steps past it, which date + timedelta refuses at date.max.
ExpandRange(lo, hi) ==
    IF hi = MaxOrdinal THEN [err |-> "OverflowError", dates |-> lo..hi]
    ELSE Loaded(lo..hi)

\* A line "a:b" whose sides parsed to d1 and d2.
RangeDates(d1, d2) ==
    IF d1 # NoDate /\ d2 # NoDate
    THEN ExpandRange(IF d1 > d2 THEN d2 ELSE d1, IF d1 > d2 THEN d1 ELSE d2)
    ELSE Loaded({})

\* A line without ":" that parsed to d.
SingleDate(d) == IF d # NoDate THEN Loaded({d}) ELSE Loaded({})

\* A line whose first ":" is at c (0: it has none).
SplitLine(line, c) ==
    IF c # 0
    THEN RangeDates(ParseAnyDate(Strip(SubSeq(line, 1, c - 1))),
                    ParseAnyDate(Strip(SubSeq(line, c + 1, Len(line)))))
    ELSE SingleDate(ParseAnyDate(line))

StrippedLineDates(line) ==
    IF Len(line) = 0 \/ StartsWith(line, "#") THEN Loaded({})
    ELSE SplitLine(line, IndexOf(line, ":"))

\* What one line of the file adds to `dates`: [err, dates].
LineDates(raw) == StrippedLineDates(Strip(raw))

\* The loop over the lines: `dates` after line i and those that follow.
RECURSIVE LoadLines(_, _, _)
AddLine(r, lines, i, dates) ==
    IF r.err # "none" THEN [err |-> r.err, dates |-> dates \cup r.dates]
    ELSE LoadLines(lines, i + 1, dates \cup r.dates)

LoadLines(lines, i, dates) ==
    IF i > Len(lines) THEN Loaded(dates)
    ELSE AddLine(LineDates(lines[i]), lines, i, dates)

(***************************************************************************)
(* State                                                                   *)
(***************************************************************************)
VARIABLES
    fs,             \* the file system: resolved path -> text of the file there
    provider,       \* workalendar's Italy: year -> its outcome for holidays(year)
    closuresCache,  \* __CLOSURES_CACHE: <<year, resolved dir>> -> set object
    italyCache,     \* __ITALY_CACHE: year -> set object
    held,           \* the set object the last load/holidays call handed its caller
    last,           \* the call that has just returned: arguments, outcome, what it touched
    computed,       \* history: cache object -> the elements first stored in it
    threads,        \* concurrent callers: thread -> where its call stands, its locals
    work            \* history: cache key -> the file reads / provider calls made for it

vars == <<fs, provider, closuresCache, italyCache, held, last, computed, threads, work>>

(***************************************************************************)
(* Paths: pathlib's "/" and Path.resolve(), relative to the working        *)
(* directory                                                               *)
(***************************************************************************)
RECURSIVE Resolve(_)
Resolve(p) ==
    IF Len(p) >= 2 /\ SubSeq(p, 1, 2) = "./" THEN Resolve(SubSeq(p, 3, Len(p)))
    ELSE p

JoinPath(dir, name) == dir \o "/" \o name

DigitStr(k) == Ch("0123456789", k + 1)

\* str(n) of an integer.
RECURSIVE IntStr(_)
IntStr(n) ==
    IF n < 0 THEN "-" \o IntStr(-n)
    ELSE IF n < 10 THEN DigitStr(n)
    ELSE IntStr(n \div 10) \o DigitStr(n % 10)

\* f"ferie_{year}.txt"
FileName(year) == "ferie_" \o IntStr(year) \o ".txt"

Exists(path) == Resolve(path) \in DOMAIN fs
ReadText(path) == fs[Resolve(path)]

\* A loader that treats a missing file as an error, as read_text() would
\* without the exists() test.
LoadClosuresFileOrRaise(txt_path) ==
    IF ~Exists(txt_path) THEN [err |-> "FileNotFoundError", dates |-> {}]
    ELSE LoadLines(SplitLines(ReadText(txt_path)), 1, {})

\* _load_closures_file(txt_path): [err, dates].
LoadClosuresFile(txt_path) ==
    IF ~Exists(txt_path) THEN Loaded({})
    ELSE LoadLines(SplitLines(ReadText(txt_path)), 1, {})

(***************************************************************************)
(* Set objects.  A Python set is an object: `id` is which object it is,    *)
(* `val` its elements.  The object a call hands its caller is "caller";    *)
(* the object stored under a cache key is named after the key.             *)
(***************************************************************************)
NewSet(id, val) == [id |-> id, val |-> val]

\* No copy: the object itself.
SameObject(o, id) == o

\* set.copy(): another object with the same elements.
SetCopy(o, id) == [id |-> id, val |-> o.val]

NoObject == [id |-> "none", val |-> {}]

\* dict[key] = o
Store(dict, key, o) == [k \in DOMAIN dict \cup {key} |-> IF k = key THEN o ELSE dict[k]]

EmptyDict == [k \in {} |-> NoObject]

(***************************************************************************)
(* holidays_provider.py: the two cached loaders                            *)
(* Each returns [err, ret, cc / ic, reads / prov]: the exception raised    *)
(* ("none" for a normal return), the object returned, the cache after the  *)
(* call, and the paths looked at on the file system (exists(), read_text())*)
(* / the years asked of the provider.                                      *)
(***************************************************************************)
\* A miss that returns what the file gave without storing it.
ReturnLoaded(cc, key, file, dates) ==
    [err |-> "none", ret |-> dates, cc |-> cc, reads |-> {Resolve(file)}]

\* The miss of load_closures_for_year, `dates` being what the file gave.
StoreLoaded(cc, key, file, dates) ==
    [err |-> "none", ret |-> dates,
     cc |-> Store(cc, key, SetCopy(dates, <<"closures", key>>)),
     reads |-> {Resolve(file)}]

LoadMiss(cc, key, file, r) ==
    IF r.err # "none"
    THEN [err |-> r.err, ret |-> NoObject, cc |-> cc, reads |-> {Resolve(file)}]
    ELSE StoreLoaded(cc, key, file, NewSet("caller", r.dates))

\* A loader that reads the file on every call and stores what it read.
LoadKeyedAfresh(cc, key, file) == LoadMiss(cc, key, file, LoadClosuresFile(file))

LoadKeyed(cc, key, file) ==
    IF key \in DOMAIN cc
    THEN [err |-> "none", ret |-> SetCopy(cc[key], "caller"), cc |-> cc,
          reads |-> {}]
    ELSE LoadMiss(cc, key, file, LoadClosuresFile(file))

LoadClosuresForYear(cc, year, base_dir) ==
    LoadKeyed(cc, <<year, Resolve(base_dir)>>, JoinPath(base_dir, FileName(year)))

ProviderFails == [fails |-> TRUE, list |-> {}]
ProviderReturns(list) == [fails |-> FALSE, list |-> list]

\* The miss of italy_holidays_for_year, `dates` being the provider's.
StoreHolidays(ic, year, dates) ==
    [err |-> "none", ret |-> dates,
     ic |-> Store(ic, year, SetCopy(dates, <<"italy", year>>)),
     prov |-> {year}]

\* A miss that stores an empty set under the year when the provider fails.
HolidaysMissStored(ic, year, out) ==
    IF out.fails
    THEN [err |-> "ProviderError", ret |-> NoObject,
          ic |-> Store(ic, year, NewSet(<<"italy", year>>, {})), prov |-> {year}]
    ELSE StoreHolidays(ic, year, NewSet("caller", {p[1] : p \in out.list}))

HolidaysMiss(ic, year, out) ==
    IF out.fails
    THEN [err |-> "ProviderError", ret |-> NoObject, ic |-> ic, prov |-> {year}]
    ELSE StoreHolidays(ic, year, NewSet("caller", {p[1] : p \in out.list}))

ItalyHolidaysForYear(ic, year) ==
    IF year \in DOMAIN ic
    THEN [err |-> "none", ret |-> SetCopy(ic[year], "caller"), ic |-> ic,
          prov |-> {}]
    ELSE HolidaysMiss(ic, year, provider[year])

(***************************************************************************)
(* date.isoformat(), sorted() of strings, numpy's datetime64[D]            *)
(***************************************************************************)
\* date.fromordinal(n).month, of a date of year y
MonthIn(y, n) ==
    LET r == n - DaysBeforeYear(y) IN
    CHOOSE m \in 1..12 :
        DaysBeforeMonth(y, m) < r /\ r <= DaysBeforeMonth(y, m) + DaysInMonth(y, m)

\* "%0*d": v in decimal, zero-padded to w digits.
RECURSIVE Pad(_, _)
Pad(v, w) == IF w = 0 THEN "" ELSE Pad(v \div 10, w - 1) \o DigitStr(v % 10)

IsoOfMonth(n, y, m) ==
    Pad(y, 4) \o "-" \o Pad(m, 2) \o "-"
        \o Pad(n - DaysBeforeYear(y) - DaysBeforeMonth(y, m), 2)

IsoOfYear(n, y) == IsoOfMonth(n, y, MonthIn(y, n))

\* date.isoformat(): "YYYY-MM-DD"
IsoFormat(n) == IsoOfYear(n, YearOf(n))

\* Code point order of the characters of ISO dates.
CharRank(c) == CHOOSE i \in 1..11 : Ch("-0123456789", i) = c

\* a < b for Python strings, which agree before position i.
RECURSIVE StrLessFrom(_, _, _)
StrLessFrom(a, b, i) ==
    IF i > Len(b) THEN FALSE
    ELSE IF i > Len(a) THEN TRUE
    ELSE IF Ch(a, i) # Ch(b, i) THEN CharRank(Ch(a, i)) < CharRank(Ch(b, i))
    ELSE StrLessFrom(a, b, i + 1)

StrLess(a, b) == StrLessFrom(a, b, 1)

\* The sorted sequence `sorted` with x put in its place.
RECURSIVE InsertSorted(_, _)
InsertSorted(sorted, x) ==
    IF Len(sorted) = 0 THEN <<x>>
    ELSE IF StrLess(x, sorted[1]) THEN <<x>> \o sorted
    ELSE <<sorted[1]>> \o InsertSorted(Tail(sorted), x)

\* sorted(S) of a set of strings.
RECURSIVE SortedStrings(_)
SortedWithout(S, x) == InsertSorted(SortedStrings(S \ {x}), x)

SortedStrings(S) ==
    IF S = {} THEN <<>> ELSE SortedWithout(S, CHOOSE x \in S : TRUE)

\* sorted(S) of a set of integers.
RECURSIVE SortedInts(_)
SortedFrom(S, m) == <<m>> \o SortedInts(S \ {m})

SortedInts(S) ==
    IF S = {} THEN <<>> ELSE SortedFrom(S, CHOOSE x \in S : \A z \in S : x <= z)

\* date(1970, 1, 1).toordinal(): day 0 of datetime64[D].
EpochOrdinal == ToOrdinal(1970, 1, 1)

Datetime64Fields(f) ==
    ToOrdinal(FieldVal(f[1]), FieldVal(f[2]), FieldVal(f[3])) - EpochOrdinal

\* np.datetime64("YYYY-MM-DD") as its day number.
Datetime64(iso) == Datetime64Fields(Split(iso, "-"))

\* numpy's day of week of a datetime64[D]: Monday is 0 (day 0 is a Thursday).
DayOfWeek64(n) == (n - 4) % 7

\* np.busday_count(begin, end, holidays=hol) with the default weekmask
\* Mon-Fri: the business days of [begin, end); hol is a sequence.
BusdayCount(begin, end, hol) ==
    LET H == {hol[i] : i \in DOMAIN hol}
        valid(lo, hi) == Cardinality({d \in lo..(hi - 1) :
                                        DayOfWeek64(d) \in 0..4 /\ d \notin H})
    IN  IF begin <= end THEN valid(begin, end)
        ELSE -valid(end + 1, begin + 1)

(***************************************************************************)
(* holidays_provider.py: get_busday_holidays                               *)
(***************************************************************************)
\* The first loop: blocked |= italy_holidays_for_year(y) for y in all_years.
RECURSIVE ItalyLoop(_, _, _, _, _)
ItalyStep(r, all_years, i, blocked, prov) ==
    IF r.err # "none"
    THEN [err |-> r.err, ic |-> r.ic, blocked |-> blocked, prov |-> prov \cup r.prov]
    ELSE ItalyLoop(all_years, i + 1, r.ic, blocked \cup r.ret.val, prov \cup r.prov)

ItalyLoop(all_years, i, ic, blocked, prov) ==
    IF i > Len(all_years)
    THEN [err |-> "none", ic |-> ic, blocked |-> blocked, prov |-> prov]
    ELSE IF all_years[i] > 0
    THEN ItalyStep(ItalyHolidaysForYear(ic, all_years[i]), all_years, i, blocked, prov)
    ELSE ItalyLoop(all_years, i + 1, ic, blocked, prov)

\* The second loop: blocked |= load_closures_for_year(y, base_dir).
RECURSIVE ClosuresLoop(_, _, _, _, _, _)
ClosuresStep(r, all_years, i, base_dir, blocked, reads) ==
    IF r.err # "none"
    THEN [err |-> r.err, cc |-> r.cc, blocked |-> blocked,
          reads |-> reads \cup r.reads]
    ELSE ClosuresLoop(all_years, i + 1, r.cc, base_dir, blocked \cup r.ret.val,
                      reads \cup r.reads)

ClosuresLoop(all_years, i, cc, base_dir, blocked, reads) ==
    IF i > Len(all_years)
    THEN [err |-> "none", cc |-> cc, blocked |-> blocked, reads |-> reads]
    ELSE IF all_years[i] > 0
    THEN ClosuresStep(LoadClosuresForYear(cc, all_years[i], base_dir), all_years, i,
                      base_dir, blocked, reads)
    ELSE ClosuresLoop(all_years, i + 1, cc, base_dir, blocked, reads)

\* all_years without the neighbours.
RequestedYears(years, include_neighbor_years) == years

\* all_years with the earlier neighbour only.
YearsWithPrevious(years, include_neighbor_years) ==
    IF include_neighbor_years THEN <<years[1] - 1>> \o years ELSE years

\* all_years with the later neighbour only.
YearsWithNext(years, include_neighbor_years) ==
    IF include_neighbor_years THEN years \o <<years[Len(years)] + 1>> ELSE years

\* all_years: the sorted years, with both neighbours when asked for.
AllYears(years, include_neighbor_years) ==
    IF include_neighbor_years
    THEN <<years[1] - 1>> \o years \o <<years[Len(years)] + 1>>
    ELSE years

\* np.array(isos, dtype="datetime64[D]")
ToArray(isos) == [i \in 1..Len(isos) |-> Datetime64(isos[i])]

\* get_busday_holidays after both loops, `it` and `cl` being what they gave.
Aggregated(it, cl) ==
    [err |-> cl.err, cc |-> cl.cc, ic |-> it.ic, reads |-> cl.reads, prov |-> it.prov,
     ret |-> IF cl.err # "none" \/ cl.blocked = {} THEN <<>>
             ELSE ToArray(SortedStrings({IsoFormat(d) : d \in cl.blocked}))]

AfterItaly(cc, it, all_years, base_dir) ==
    IF it.err # "none"
    THEN [err |-> it.err, ret |-> <<>>, cc |-> cc, ic |-> it.ic,
          reads |-> {}, prov |-> it.prov]
    ELSE Aggregated(it, ClosuresLoop(all_years, 1, cc, base_dir, it.blocked, {}))

HolidaysOfYears(cc, ic, all_years, base_dir) ==
    AfterItaly(cc, ItalyLoop(all_years, 1, ic, {}, {}), all_years, base_dir)

HolidaysOfSorted(cc, ic, years, base_dir, include_neighbor_years) ==
    IF Len(years) = 0
    THEN [err |-> "none", ret |-> <<>>, cc |-> cc, ic |-> ic,
          reads |-> {}, prov |-> {}]
    ELSE HolidaysOfYears(cc, ic, AllYears(years, include_neighbor_years), base_dir)

\* get_busday_holidays(years, base_dir, include_neighbor_years):
\* [err, ret, cc, ic, reads, prov], ret the array as a sequence of day numbers.
GetBusdayHolidays(cc, ic, years, base_dir, include_neighbor_years) ==
    HolidaysOfSorted(cc, ic, SortedInts(years), base_dir, include_neighbor_years)

(***************************************************************************)
(* workdays.py                                                             *)
(***************************************************************************)
\* _years_between_inclusive(a, b)
YearsBetweenInclusive(a, b) ==
    LET y0 == YearOf(a)
        y1 == YearOf(b)
    IN  IF y0 <= y1 THEN y0..y1 ELSE y1..y0

\* The count over [start, end): the last day left out.
CountedExclusive(h, start, end) ==
    IF h.err # "none" THEN [h EXCEPT !.ret = 0]
    ELSE [h EXCEPT !.ret = BusdayCount(Datetime64(IsoFormat(start)),
                                       Datetime64(IsoFormat(end)), h.ret)]

\* int(np.busday_count(s, e, holidays=hol)) over [start, end + 1 day), hol
\* being what get_busday_holidays gave.
Counted(h, start, end) ==
    IF h.err # "none" THEN [h EXCEPT !.ret = 0]
    ELSE IF end + 1 > MaxOrdinal THEN [h EXCEPT !.err = "OverflowError", !.ret = 0]
    ELSE [h EXCEPT !.ret = BusdayCount(Datetime64(IsoFormat(start)),
                                       Datetime64(IsoFormat(end + 1)), h.ret)]

\* What the one-day branch and the forward branch both do, for their years.
CountForward(cc, ic, start, end, years, closures_dir, include_neighbor_years) ==
    Counted(GetBusdayHolidays(cc, ic, years, closures_dir, include_neighbor_years),
            start, end)

\* No negation of a reversed range.
NotNegated(r) == r

Negated(r) == [r EXCEPT !.ret = -r.ret]

\* A count that gives 0 for a reversed range.
CountOrZero(cc, ic, start, end, closures_dir, include_neighbor_years) ==
    IF start = end
    THEN CountForward(cc, ic, start, start, {YearOf(start)}, closures_dir,
                      include_neighbor_years)
    ELSE IF end < start
    THEN [CountForward(cc, ic, end, start, YearsBetweenInclusive(end, start),
                       closures_dir, include_neighbor_years) EXCEPT !.ret = 0]
    ELSE CountForward(cc, ic, start, end, YearsBetweenInclusive(start, end),
                      closures_dir, include_neighbor_years)

\* count_workdays_inclusive(start, end, closures_dir=..., include_neighbor_years=...):
\* [err, ret, cc, ic, reads, prov].
RECURSIVE CountWorkdaysInclusive(_, _, _, _, _, _)
CountWorkdaysInclusive(cc, ic, start, end, closures_dir, include_neighbor_years) ==
    IF start = end
    THEN CountForward(cc, ic, start, start, {YearOf(start)}, closures_dir,
                      include_neighbor_years)
    ELSE IF end < start
    THEN Negated(CountWorkdaysInclusive(cc, ic, end, start, closures_dir,
                                        include_neighbor_years))
    ELSE CountForward(cc, ic, start, end, YearsBetweenInclusive(start, end),
                      closures_dir, include_neighbor_years)

(***************************************************************************)
(* Bounds and the inputs drawn from them                                   *)
(***************************************************************************)
D(y, m, d) == ToOrdinal(y, m, d)

\* The example of the documentation.
ExampleStart == D(2025, 10, 7)
ExampleEnd == D(2025, 10, 23)

\* The year the query dates lie around.
BaseYear == YearOf(ExampleStart)

\* Query dates: Window days on each side of the start of BaseYear
\* (2024-12-29 is a Sunday, 2025-01-01 a Wednesday).
Window == 3

WindowDates == {D(BaseYear, 1, 1) + k : k \in (-Window)..(Window - 1)}

\* Two more queries: the example of the documentation, and one that
\* touches three calendar years.

ExtraPairs ==
    {<<ExampleStart, ExampleEnd>>, <<ExampleEnd, ExampleStart>>,
     <<D(BaseYear - 1, 12, 31), D(BaseYear + 1, 1, 1)>>,
     <<D(BaseYear + 1, 1, 1), D(BaseYear - 1, 12, 31)>>}

QueryPairs == (WindowDates \X WindowDates) \cup ExtraPairs

\* The closure directory under two names, and another directory.
Dirs == {"ferie", "./ferie", "alt"}
CacheDirs == {"ferie", "./ferie"}

\* Texts of closure files.
RangeText == "2024-12-30:2025-01-02"
MixedText == "2025-01-01\n# chiusura\nnon una data\n31/12/2024 : 30/12/2024\n"
FormatsText == "02-01-2025\n12/31/2024\n\n   \n \t03/01/2025 "
HalfRangeText == "2025-01-01:non una data\n:2025-01-02\n2025-01-03:\n2025-01-01:2025-01-03:2025-01-05"
InvalidText == "31/02/2025\n2025-13-01\n#2025-01-01\n1/2/2025"
LastDayText == "9999-12-31"
LastRangeText == "2025-01-02\n9999-12-30:9999-12-31"
TwoDigitText == "01/01/25"

ToleranceTexts ==
    {RangeText, MixedText, FormatsText, HalfRangeText, InvalidText, LastDayText,
     LastRangeText}

ParseTexts == ToleranceTexts \cup {TwoDigitText}

FileOf(dir, y) == Resolve(JoinPath(dir, FileName(y)))

NoFiles == [p \in {} |-> ""]
OneFile(path, text) == [p \in {path} |-> text]

\* The file systems of the cache machine and of the counting runs: no file,
\* or one file in "ferie".
FileSystems ==
    {NoFiles,
     OneFile(FileOf("ferie", BaseYear - 1), RangeText),
     OneFile(FileOf("ferie", BaseYear), MixedText),
     OneFile(FileOf("ferie", BaseYear + 1), RangeText)}

\* The file systems of the loading runs: no file, or one file of BaseYear.
LoadFileSystems ==
    {NoFiles} \cup {OneFile(FileOf(dir, BaseYear), t) :
                      dir \in {"ferie", "alt"}, t \in ParseTexts}

\* The years the provider is asked about.
ProviderYears == {1} \cup ((BaseYear - 3)..(BaseYear + 3))

\* New Year's Day and St Stephen's Day, with the labels the provider gives.
ItalyList(y) == {<<D(y, 1, 1), "New year">>, <<D(y, 12, 26), "St Stephen">>}

NoHolidays == [y \in ProviderYears |-> ProviderReturns({})]
ItalyHolidays == [y \in ProviderYears |-> ProviderReturns(ItalyList(y))]
FailingAt(f) ==
    [y \in ProviderYears |-> IF y = f THEN ProviderFails ELSE ItalyHolidays[y]]

Providers == {NoHolidays, ItalyHolidays, FailingAt(BaseYear + 1)}

\* The year sets blocked_dates is asked for, the years of direct calls.
YearSets == {{}, {0}, {BaseYear}, {BaseYear - 1, BaseYear}}
LoadYears == {BaseYear - 1, BaseYear}
HolidayYears == {BaseYear, BaseYear + 1}
CachePairs ==
    {<<D(BaseYear - 1, 12, 31), D(BaseYear, 1, 2)>>,
     <<D(BaseYear, 1, 2), D(BaseYear, 1, 2)>>}

(***************************************************************************)
(* Init and the operations                                                 *)
(***************************************************************************)
NoCall == [op |-> "none"]

\* The callers that may run at the same time.
Threads == {"t1", "t2"}

\* A thread that is in no call.
Idle ==
    [pc |-> "idle", op |-> "none", year |-> 0, dir |-> "", lines |-> <<>>, i |-> 0,
     dates |-> {}, err |-> "none", ret |-> {}]

InitWith(fileSystems, providers) ==
    /\ fs \in fileSystems
    /\ provider \in providers
    /\ closuresCache = EmptyDict
    /\ italyCache = EmptyDict
    /\ held = NoObject
    /\ last = NoCall
    /\ computed = [o \in {} |-> {}]
    /\ threads = [t \in Threads |-> Idle]
    /\ work = [k \in {} |-> 0]

Init == InitWith(FileSystems, Providers)

\* What the caches hold that they did not hold before, by object.
Computed(cc, ic) ==
    LET new == {<<"closures", k>> : k \in DOMAIN cc \ DOMAIN closuresCache}
                 \cup {<<"italy", y>> : y \in DOMAIN ic \ DOMAIN italyCache}
    IN  [o \in DOMAIN computed \cup new |->
            IF o \in DOMAIN computed THEN computed[o]
            ELSE IF o[1] = "closures" THEN cc[o[2]].val ELSE ic[o[2]].val]

\* A caller calls load_closures_for_year(year, dir), which gives r.
LoadReturns(r, year, dir) ==
    /\ closuresCache' = r.cc
    /\ held' = r.ret
    /\ last' = [op |-> "load", year |-> year, dir |-> dir, err |-> r.err,
                ret |-> r.ret.val, reads |-> r.reads,
                hit |-> <<year, Resolve(dir)>> \in DOMAIN closuresCache]
    /\ computed' = Computed(r.cc, italyCache)
    /\ UNCHANGED <<fs, provider, italyCache, threads, work>>

Load(year, dir) ==
    /\ last = NoCall
    /\ LoadReturns(LoadClosuresForYear(closuresCache, year, dir), year, dir)

\* A caller calls italy_holidays_for_year(year), which gives r.
HolidaysReturns(r, year) ==
    /\ italyCache' = r.ic
    /\ held' = r.ret
    /\ last' = [op |-> "holidays", year |-> year, err |-> r.err,
                ret |-> r.ret.val, prov |-> r.prov,
                hit |-> year \in DOMAIN italyCache]
    /\ computed' = Computed(closuresCache, r.ic)
    /\ UNCHANGED <<fs, provider, closuresCache, threads, work>>

Holidays(year) ==
    /\ last = NoCall
    /\ HolidaysReturns(ItalyHolidaysForYear(italyCache, year), year)

\* A caller calls get_busday_holidays(years, dir, nbr), which gives r.
BlockedReturns(r, years, dir, nbr) ==
    /\ closuresCache' = r.cc
    /\ italyCache' = r.ic
    /\ last' = [op |-> "blocked", years |-> years, dir |-> dir, nbr |-> nbr,
                err |-> r.err, ret |-> r.ret, reads |-> r.reads, prov |-> r.prov]
    /\ computed' = Computed(r.cc, r.ic)
    /\ UNCHANGED <<fs, provider, held, threads, work>>

BlockedDates(years, dir, nbr) ==
    /\ last = NoCall
    /\ BlockedReturns(GetBusdayHolidays(closuresCache, italyCache, years, dir, nbr),
                      years, dir, nbr)

\* A caller calls count_workdays_inclusive(a, b, closures_dir=dir,
\* include_neighbor_years=nbr), which gives r.
CountReturns(r, a, b, dir, nbr) ==
    /\ closuresCache' = r.cc
    /\ italyCache' = r.ic
    /\ last' = [op |-> "count", a |-> a, b |-> b, dir |-> dir, nbr |-> nbr,
                err |-> r.err, ret |-> r.ret, reads |-> r.reads, prov |-> r.prov]
    /\ computed' = Computed(r.cc, r.ic)
    /\ UNCHANGED <<fs, provider, held, threads, work>>

Count(a, b, dir, nbr) ==
    /\ last = NoCall
    /\ CountReturns(CountWorkdaysInclusive(closuresCache, italyCache, a, b, dir, nbr),
                    a, b, dir, nbr)

\* Every place that holds object o now holds it with the elements val.
Mutated(dict, id, val) ==
    [k \in DOMAIN dict |-> IF dict[k].id = id THEN [dict[k] EXCEPT !.val = val]
                           ELSE dict[k]]

\* The caller changes the set it was handed: it adds date d, or removes it.
CallerMutate(d) ==
    LET val == IF d \in held.val THEN held.val \ {d} ELSE held.val \cup {d} IN
    /\ last # NoCall
    /\ last.op \in {"load", "holidays"}
    /\ held.id # "none"
    /\ held' = [held EXCEPT !.val = val]
    /\ closuresCache' = Mutated(closuresCache, held.id, val)
    /\ italyCache' = Mutated(italyCache, held.id, val)
    /\ last' = [op |-> "mutate", of |-> last]
    /\ UNCHANGED <<fs, provider, computed, threads, work>>

\* The caller is done with the result of the call.
Return ==
    /\ last # NoCall
    /\ last' = NoCall
    /\ held' = NoObject
    /\ UNCHANGED <<fs, provider, closuresCache, italyCache, computed, threads, work>>

\* The provider, fixed, answers for a year it failed for.
ProviderRecovers(y) ==
    /\ last = NoCall
    /\ provider[y].fails
    /\ provider' = [provider EXCEPT ![y] = ProviderReturns(ItalyList(y))]
    /\ UNCHANGED <<fs, closuresCache, italyCache, held, last, computed, threads,
                   work>>

\* The cache machine: every operation of holidays_provider.py, and two
\* counts, on one directory under its two names.
Next ==
    \/ \E y \in LoadYears, dir \in CacheDirs : Load(y, dir)
    \/ \E y \in HolidayYears : Holidays(y)
    \/ \E ys \in YearSets, dir \in CacheDirs, nbr \in BOOLEAN : BlockedDates(ys, dir, nbr)
    \/ \E q \in CachePairs, dir \in CacheDirs, nbr \in BOOLEAN : Count(q[1], q[2], dir, nbr)
    \/ \E d \in {D(BaseYear, 1, 1)} : CallerMutate(d)
    \/ \E y \in ProviderYears : ProviderRecovers(y)
    \/ Return

Spec == Init /\ [][Next]_vars

\* The counting runs: count_workdays_inclusive over the query pairs.
NextCount ==
    \/ \E q \in QueryPairs, nbr \in BOOLEAN : Count(q[1], q[2], "ferie", nbr)
    \/ Return

SpecCount == Init /\ [][NextCount]_vars

\* The loading runs: load_closures_for_year on every text.
InitLoad == InitWith(LoadFileSystems, {ItalyHolidays})

NextLoad ==
    \/ \E y \in LoadYears, dir \in Dirs : Load(y, dir)
    \/ Return

SpecLoad == InitLoad /\ [][NextLoad]_vars

(***************************************************************************)
(* The closure files change while the process runs                         *)
(***************************************************************************)
\* The file systems a run may pass through: those of FileSystems, and the
\* file of BaseYear rewritten.
ChangingFileSystems ==
    FileSystems \cup {OneFile(FileOf("ferie", BaseYear), RangeText)}

\* Between two calls somebody creates, rewrites or deletes closure files.
FileChanges(files) ==
    /\ last = NoCall
    /\ files # fs
    /\ fs' = files
    /\ UNCHANGED <<provider, closuresCache, italyCache, held, last, computed, threads,
                   work>>

\* The cache machine with files that change.
NextFiles ==
    \/ Next
    \/ \E files \in ChangingFileSystems : FileChanges(files)

SpecFiles == Init /\ [][NextFiles]_vars

(***************************************************************************)
(* Concurrent callers.  The two loaders take no lock, so a thread may be   *)
(* switched out between any two statements: each action below is one       *)
(* statement (one line of a closure file, for the loop) of one thread.     *)
(***************************************************************************)
\* key = (year, base_dir.resolve()) of the thread's call.
ClosuresKey(th) == <<th.year, Resolve(th.dir)>>

\* One more read_text() / provider call made for key k.
Worked(k) ==
    [x \in DOMAIN work \cup {k} |->
        IF x # k THEN work[x]
        ELSE IF k \in DOMAIN work THEN work[k] + 1 ELSE 1]

\* Thread t calls load_closures_for_year(year, dir).
RequestLoad(t, year, dir) ==
    /\ threads[t].pc = "idle"
    /\ threads' = [threads EXCEPT ![t] =
                      [Idle EXCEPT !.pc = "check", !.op = "load", !.year = year,
                                   !.dir = dir]]
    /\ UNCHANGED <<fs, provider, closuresCache, italyCache, held, last, computed, work>>

\* if key in __CLOSURES_CACHE: return __CLOSURES_CACHE[key].copy()
CheckClosuresCache(t) ==
    LET th == threads[t] IN
    /\ th.pc = "check"
    /\ th.op = "load"
    /\ threads' = [threads EXCEPT ![t] =
                      IF ClosuresKey(th) \in DOMAIN closuresCache
                      THEN [th EXCEPT !.pc = "done",
                                      !.ret = SetCopy(closuresCache[ClosuresKey(th)],
                                                      "caller").val]
                      ELSE [th EXCEPT !.pc = "open"]]
    /\ UNCHANGED <<fs, provider, closuresCache, italyCache, held, last, computed, work>>

\* _load_closures_file begins: exists(), read_text().splitlines().
OpenFile(t) ==
    LET th == threads[t]
        file == JoinPath(th.dir, FileName(th.year))
    IN  /\ th.pc = "open"
        /\ threads' = [threads EXCEPT ![t] =
                          IF Exists(file)
                          THEN [th EXCEPT !.pc = "line", !.i = 1,
                                          !.lines = SplitLines(ReadText(file))]
                          ELSE [th EXCEPT !.pc = "store"]]
        /\ work' = IF Exists(file) THEN Worked(<<"closures", ClosuresKey(th)>>)
                    ELSE work
        /\ UNCHANGED <<fs, provider, closuresCache, italyCache, held, last, computed>>

\* The thread after a line that gave r.
LineRead(th, r) ==
    IF r.err # "none" THEN [th EXCEPT !.pc = "done", !.err = r.err]
    ELSE [th EXCEPT !.dates = @ \cup r.dates, !.i = @ + 1]

\* One turn of the loop over the lines.
ReadLine(t) ==
    LET th == threads[t] IN
    /\ th.pc = "line"
    /\ threads' = [threads EXCEPT ![t] =
                      IF th.i > Len(th.lines) THEN [th EXCEPT !.pc = "store"]
                      ELSE LineRead(th, LineDates(th.lines[th.i]))]
    /\ UNCHANGED <<fs, provider, closuresCache, italyCache, held, last, computed, work>>

\* __CLOSURES_CACHE[key] = dates.copy()
StoreClosures(t) ==
    LET th == threads[t]
        key == ClosuresKey(th)
        cc == Store(closuresCache, key,
                    SetCopy(NewSet("caller", th.dates), <<"closures", key>>))
    IN  /\ th.pc = "store"
        /\ th.op = "load"
        /\ closuresCache' = cc
        /\ computed' = Computed(cc, italyCache)
        /\ threads' = [threads EXCEPT ![t] = [th EXCEPT !.pc = "return"]]
        /\ UNCHANGED <<fs, provider, italyCache, held, last, work>>

\* Thread t calls italy_holidays_for_year(year).
RequestHolidays(t, year) ==
    /\ threads[t].pc = "idle"
    /\ threads' = [threads EXCEPT ![t] =
                      [Idle EXCEPT !.pc = "check", !.op = "holidays", !.year = year]]
    /\ UNCHANGED <<fs, provider, closuresCache, italyCache, held, last, computed, work>>

\* if year in __ITALY_CACHE: return __ITALY_CACHE[year].copy()
CheckItalyCache(t) ==
    LET th == threads[t] IN
    /\ th.pc = "check"
    /\ th.op = "holidays"
    /\ threads' = [threads EXCEPT ![t] =
                      IF th.year \in DOMAIN italyCache
                      THEN [th EXCEPT !.pc = "done",
                                      !.ret = SetCopy(italyCache[th.year], "caller").val]
                      ELSE [th EXCEPT !.pc = "call"]]
    /\ UNCHANGED <<fs, provider, closuresCache, italyCache, held, last, computed, work>>

\* dates = {d for (d, _label) in Italy().holidays(year)}
CallProvider(t) ==
    LET th == threads[t]
        out == provider[th.year]
    IN  /\ th.pc = "call"
        /\ threads' = [threads EXCEPT ![t] =
                          IF out.fails
                          THEN [th EXCEPT !.pc = "done", !.err = "ProviderError"]
                          ELSE [th EXCEPT !.pc = "store",
                                          !.dates = {p[1] : p \in out.list}]]
        /\ work' = Worked(<<"italy", th.year>>)
        /\ UNCHANGED <<fs, provider, closuresCache, italyCache, held, last, computed>>

\* __ITALY_CACHE[year] = dates.copy()
StoreItaly(t) ==
    LET th == threads[t]
        ic == Store(italyCache, th.year,
                    SetCopy(NewSet("caller", th.dates), <<"italy", th.year>>))
    IN  /\ th.pc = "store"
        /\ th.op = "holidays"
        /\ italyCache' = ic
        /\ computed' = Computed(closuresCache, ic)
        /\ threads' = [threads EXCEPT ![t] = [th EXCEPT !.pc = "return"]]
        /\ UNCHANGED <<fs, provider, closuresCache, held, last, work>>

\* return dates
ReturnDates(t) ==
    LET th == threads[t] IN
    /\ th.pc = "return"
    /\ threads' = [threads EXCEPT ![t] = [th EXCEPT !.pc = "done", !.ret = th.dates]]
    /\ UNCHANGED <<fs, provider, closuresCache, italyCache, held, last, computed, work>>

\* The caller of thread t has its result, or its exception.
Finish(t) ==
    /\ threads[t].pc = "done"
    /\ threads' = [threads EXCEPT ![t] = Idle]
    /\ UNCHANGED <<fs, provider, closuresCache, italyCache, held, last, computed, work>>

\* Two threads, each calling the loaders again and again.
NextConcurrent ==
    \/ \E t \in Threads, dir \in CacheDirs : RequestLoad(t, BaseYear, dir)
    \/ \E t \in Threads, y \in HolidayYears : RequestHolidays(t, y)
    \/ \E t \in Threads : CheckClosuresCache(t)
    \/ \E t \in Threads : OpenFile(t)
    \/ \E t \in Threads : ReadLine(t)
    \/ \E t \in Threads : StoreClosures(t)
    \/ \E t \in Threads : CheckItalyCache(t)
    \/ \E t \in Threads : CallProvider(t)
    \/ \E t \in Threads : StoreItaly(t)
    \/ \E t \in Threads : ReturnDates(t)
    \/ \E t \in Threads : Finish(t)

\* The provider answers for every year: a failure is never cached, so a
\* year that fails is asked about again by every call, in one thread too.
InitConcurrent == InitWith(FileSystems, {NoHolidays, ItalyHolidays})

SpecConcurrent == InitConcurrent /\ [][NextConcurrent]_vars

(***************************************************************************)
(* Properties                                                              *)
(* Each is stated on the call that has just returned (`last`) and, where   *)
(* it relates two calls, on a second call made in the state the first one  *)
(* left.                                                                   *)
(***************************************************************************)
Elems(seq) == {seq[i] : i \in DOMAIN seq}

MinOf(S) == CHOOSE x \in S : \A z \in S : x <= z
MaxOf(S) == CHOOSE x \in S : \A z \in S : z <= x

\* The days from a to b, whichever comes first.
Span(a, b) == IF a <= b THEN a..b ELSE b..a

\* The calendar years of the days between a and b.
YearsTouched(a, b) == {YearOf(d) : d \in Span(a, b)}

\* Monday..Friday, by the calendar.
WorkingWeekday(d) == Weekday(d) \in 0..4

\* The years blocked_dates looks at.
EffectiveYears(years, nbr) ==
    IF years = {} THEN {}
    ELSE {y \in (IF nbr THEN years \cup {MinOf(years) - 1, MaxOf(years) + 1}
                 ELSE years) : y > 0}

\* The dates of an array of day numbers.
BlockedDays(ret) == {n + EpochOrdinal : n \in Elems(ret)}

\* blocked_dates for the years touched by [a, b], asked now.
BlockedFor(a, b, dir, nbr) ==
    GetBusdayHolidays(closuresCache, italyCache, YearsTouched(a, b), dir, nbr)

\* The working days of [a, b] outside `blocked`.
WorkingDays(a, b, blocked) ==
    Cardinality({d \in a..b : WorkingWeekday(d) /\ d \notin blocked})

\* The count has returned / has returned normally.
CountReturned == last.op = "count"
CountedOk == last.op = "count" /\ last.err = "none"

\* count(b, a), asked after count(a, b) has returned.
Reversed ==
    CountWorkdaysInclusive(closuresCache, italyCache, last.b, last.a, last.dir,
                           last.nbr)

\* C1 (as stated): for all dates a and b, a == b included, and a fixed
\* closure directory, provider and flag, count(a, b) == -count(b, a).
AntisymmetryForAll ==
    CountedOk => (Reversed.err = "none" /\ last.ret = -Reversed.ret)

\* C1 (amended): count(a, b) == -count(b, a) for all dates a # b; for
\* a == b the two calls are the same call, whose count is 0 or 1, so the
\* relation holds there only when the count is 0.  A call that fails fails
\* in both directions.
AntisymmetryDistinct ==
    CountReturned =>
        /\ Reversed.err = last.err
        /\ (last.err = "none" /\ last.a # last.b) => last.ret = -Reversed.ret
        /\ (last.err = "none" /\ last.a = last.b) =>
              (last.ret = Reversed.ret /\ last.ret \in {0, 1})

\* A reversed range of several working days has been counted.
ReversedCounted == CountedOk /\ last.b < last.a /\ last.ret < -1

\* C2: for start <= end, a count that returns gives the number of days d of
\* [start, end] that are Monday..Friday and not in blocked_dates(years
\* touched, base_dir, include_neighbor_years); count(d, d) is 1 for a
\* working day not blocked and 0 otherwise; with nothing configured
\* count(2025-10-07, 2025-10-23) is 13.
InclusiveCountingRule ==
    (CountedOk /\ last.a <= last.b) =>
        LET h == BlockedFor(last.a, last.b, last.dir, last.nbr) IN
        /\ h.err = "none"
        /\ last.ret = WorkingDays(last.a, last.b, BlockedDays(h.ret))
        /\ last.a = last.b =>
              last.ret = IF WorkingWeekday(last.a) /\ last.a \notin BlockedDays(h.ret)
                         THEN 1 ELSE 0
        /\ (/\ fs = NoFiles
            /\ provider = NoHolidays
            /\ last.a = ExampleStart
            /\ last.b = ExampleEnd) => last.ret = 13

\* The example has been counted with nothing configured.
ExampleCounted ==
    /\ CountedOk
    /\ fs = NoFiles
    /\ provider = NoHolidays
    /\ last.a = ExampleStart
    /\ last.b = ExampleEnd
    /\ last.ret = 13

\* What the closure file of year y in dir expands to.
FileDates(y, dir) == LoadClosuresFile(JoinPath(dir, FileName(y))).dates

\* The file system holds the range 2024-12-30:2025-01-02 in the file of 2024.
RangeInPreviousYear == fs = OneFile(FileOf("ferie", BaseYear - 1), RangeText)

\* C3: with include_neighbor_years true, a query [start, end] touching the
\* years S counts no date expanded from the closure file of a year of
\* S + {min(S) - 1, max(S) + 1}, whatever the year of that date; the range
\* 2024-12-30:2025-01-02 in the file of 2024 makes count(2024-12-31,
\* 2025-01-02) 0, and a query that touches only 2025 sees it.
NeighborYearInclusion ==
    (CountedOk /\ last.nbr /\ last.a <= last.b) =>
        LET S == YearsTouched(last.a, last.b)
            closed == UNION {FileDates(y, last.dir) :
                               y \in S \cup {MinOf(S) - 1, MaxOf(S) + 1}}
        IN  /\ last.ret <= WorkingDays(last.a, last.b, closed)
            /\ (RangeInPreviousYear /\ last.dir = "ferie") =>
                  /\ (last.a = D(2024, 12, 31) /\ last.b = D(2025, 1, 2)) => last.ret = 0
                  /\ (last.a = D(2025, 1, 2) /\ last.b = D(2025, 1, 2)) => last.ret = 0

\* A query that touches only 2025 has met the range written in the file of
\* 2024, with no public holiday in the way.
NeighborRangeSeen ==
    /\ CountedOk
    /\ last.nbr
    /\ RangeInPreviousYear
    /\ provider = NoHolidays
    /\ last.a = D(2025, 1, 2)
    /\ last.b = D(2025, 1, 2)
    /\ last.ret = 0

\* count(a, b + 1 day), asked after count(a, b) has returned.
Extended ==
    CountWorkdaysInclusive(closuresCache, italyCache, last.a, last.b + 1, last.dir,
                           last.nbr)

\* The dates blocked for the call count(a, b).
BlockedOfCall(a, b) == BlockedDays(BlockedFor(a, b, last.dir, last.nbr).ret)

\* Of [a, b] and [a, b + 1] the longer range is the one with more days: the
\* second where a <= b, the first where b < a.  The blocked set of the
\* longer one blocks no date of the shorter one that the shorter one's
\* blocked set does not block.
NoNewExclusions ==
    LET asked == BlockedOfCall(last.a, last.b)
        extended == BlockedOfCall(last.a, last.b + 1)
    IN  IF last.a <= last.b
        THEN \A d \in extended : d \in Span(last.a, last.b) => d \in asked
        ELSE \A d \in asked : d \in Span(last.a, last.b + 1) => d \in extended

\* C4: for every a and every b, before, at or after a, count(a, b + 1 day)
\* >= count(a, b) when the longer of the two ranges brings no exclusion the
\* shorter one does not have.
Monotonicity ==
    (CountedOk /\ Extended.err = "none" /\ NoNewExclusions) =>
        Extended.ret >= last.ret

\* A reversed range has been counted, and one day less of it counts more.
ReversedRangeShortened ==
    /\ CountedOk
    /\ last.b < last.a
    /\ Extended.err = "none"
    /\ NoNewExclusions
    /\ Extended.ret > last.ret

\* blocked_dates with the same arguments, asked after blocked_dates has
\* returned.
Again ==
    GetBusdayHolidays(closuresCache, italyCache, last.years, last.dir, last.nbr)

\* C5: a second blocked_dates call with the same arguments returns an equal
\* result, looks at no closure file and asks the provider for no year.
IdempotenceThroughCache ==
    (last.op = "blocked" /\ last.err = "none") =>
        /\ Again.err = "none"
        /\ Again.ret = last.ret
        /\ Again.reads = {}
        /\ Again.prov = {}
        /\ Again.cc = closuresCache
        /\ Again.ic = italyCache

\* A blocked_dates call has read files, asked the provider and found dates.
BlockedDatesWorked ==
    /\ last.op = "blocked"
    /\ last.err = "none"
    /\ last.reads # {}
    /\ last.prov # {}
    /\ last.ret # <<>>

\* holidays(y) and load(y, dir), asked now.
HolidaysOf(y) == ItalyHolidaysForYear(italyCache, y).ret.val
ClosuresOf(y, dir) == LoadClosuresForYear(closuresCache, y, dir).ret.val

StrictlyIncreasing(seq) == \A i \in 1..(Len(seq) - 1) : seq[i] < seq[i + 1]

\* C6: blocked_dates returns the empty sequence for no years; otherwise a
\* strictly increasing sequence of exactly the union of holidays(y) and
\* load(y, base_dir) over the effective years: the years, with min - 1 and
\* max + 1 when include_neighbor_years is true, every year <= 0 dropped.
BlockedDatesIsTheUnion ==
    (last.op = "blocked" /\ last.err = "none") =>
        IF last.years = {} THEN last.ret = <<>>
        ELSE /\ StrictlyIncreasing(last.ret)
             /\ BlockedDays(last.ret) =
                    UNION {HolidaysOf(y) \cup ClosuresOf(y, last.dir) :
                             y \in EffectiveYears(last.years, last.nbr)}

\* blocked_dates for BaseYear with its neighbours has returned the six
\* public holidays of three years and the four days of a neighbour's file.
NeighborsGathered ==
    /\ last.op = "blocked"
    /\ last.err = "none"
    /\ last.nbr
    /\ last.years = {BaseYear}
    /\ RangeInPreviousYear
    /\ Len(last.ret) = 9

\* The dates the texts of closure files stand for, read by hand.
ExpectedDates(text) ==
    CASE text = RangeText -> D(2024, 12, 30)..D(2025, 1, 2)
      [] text = MixedText -> {D(2025, 1, 1), D(2024, 12, 30), D(2024, 12, 31)}
      [] text = FormatsText -> {D(2025, 1, 2), D(2024, 12, 31), D(2025, 1, 3)}
      [] text = HalfRangeText -> {}
      [] text = InvalidText -> {D(2025, 2, 1)}
      [] text = LastDayText -> {D(9999, 12, 31)}
      [] text = LastRangeText -> {D(2025, 1, 2), D(9999, 12, 30), D(9999, 12, 31)}

\* C7: load returns exactly the dates of the valid single-date lines and
\* the inclusive expansion of the valid range lines of the file, reversed
\* ranges swapped; the other lines add nothing, and no line makes it raise.
TolerantParsing ==
    (/\ last.op = "load"
     /\ FileOf(last.dir, last.year) \in DOMAIN fs
     /\ fs[FileOf(last.dir, last.year)] \in ToleranceTexts) =>
        /\ last.err = "none"
        /\ last.ret = ExpectedDates(fs[FileOf(last.dir, last.year)])

\* No closure file of year y in dir.
MissingFile(y, dir) == FileOf(dir, y) \notin DOMAIN fs

\* The public holidays the provider has for the years.
ProviderDates(years) == UNION {{p[1] : p \in provider[y].list} : y \in years}

\* C8: with no closure file for year y in base_dir, load(y, base_dir)
\* returns the empty set and does not raise; blocked_dates and count do not
\* raise for it either, and where every year they look at lacks its file
\* they give the public holidays alone.
MissingFileIsNoError ==
    /\ (last.op = "load" /\ MissingFile(last.year, last.dir)) =>
          (last.err = "none" /\ last.ret = {})
    /\ last.op = "blocked" =>
          LET ys == EffectiveYears(last.years, last.nbr) IN
          /\ last.err \in {"none", "ProviderError"}
          /\ (last.err = "none" /\ \A y \in ys : MissingFile(y, last.dir)) =>
                BlockedDays(last.ret) = ProviderDates(ys)
    /\ last.op = "count" =>
          LET ys == EffectiveYears(YearsTouched(last.a, last.b), last.nbr) IN
          /\ last.err \in {"none", "ProviderError"}
          /\ (/\ last.err = "none"
              /\ last.a <= last.b
              /\ \A y \in ys : MissingFile(y, last.dir)) =>
                last.ret = WorkingDays(last.a, last.b, ProviderDates(ys))

\* load has looked for a file that does not exist.
MissingFileLoaded ==
    /\ last.op = "load"
    /\ ~last.hit
    /\ MissingFile(last.year, last.dir)
    /\ last.reads # {}
    /\ last.ret = {}

\* The set objects the caches hold.
CacheObjects ==
    {closuresCache[k].id : k \in DOMAIN closuresCache}
        \cup {italyCache[y].id : y \in DOMAIN italyCache}

\* C9: the set load(year, base_dir) or holidays(year) hands its caller, on
\* a miss as on a hit, is never an object the cache holds; whatever callers
\* do to the sets they were handed, every cache entry holds the value first
\* computed for its key.
DefensiveCopies ==
    /\ held.id \notin CacheObjects
    /\ \A k \in DOMAIN closuresCache :
          /\ closuresCache[k].val = computed[<<"closures", k>>]
          /\ closuresCache[k].val = FileDates(k[1], k[2])
    /\ \A y \in DOMAIN italyCache :
          /\ italyCache[y].val = computed[<<"italy", y>>]
          /\ italyCache[y].val = ProviderDates({y})

\* A caller has changed the set a cache hit of load handed it.
HitCopyMutated ==
    /\ last.op = "mutate"
    /\ last.of.op = "load"
    /\ last.of.hit
    /\ held.val # closuresCache[<<last.of.year, Resolve(last.of.dir)>>].val

\* C10: when the provider fails for year y, holidays(y) and every
\* blocked_dates or count call that needs y fail with that error, no cache
\* entry for y is made, and the next holidays(y) asks the provider again.
FailuresNotCached ==
    /\ \A y \in DOMAIN italyCache : ~provider[y].fails
    /\ (last.op = "holidays" /\ provider[last.year].fails) =>
          last.err = "ProviderError"
    /\ (/\ last.op = "blocked"
        /\ \E y \in EffectiveYears(last.years, last.nbr) : provider[y].fails) =>
          last.err = "ProviderError"
    /\ (/\ last.op = "count"
        /\ \E y \in EffectiveYears(YearsTouched(last.a, last.b), last.nbr) :
              provider[y].fails) =>
          last.err = "ProviderError"
    /\ (last.op \in {"holidays", "blocked", "count"} /\ last.err = "ProviderError") =>
          \E y \in last.prov :
              /\ provider[y].fails
              /\ y \notin DOMAIN italyCache
              /\ ItalyHolidaysForYear(italyCache, y).prov = {y}
              /\ ItalyHolidaysForYear(italyCache, y).err = "ProviderError"

\* holidays(y) has failed for a year the provider fails for.
HolidaysFailed ==
    /\ last.op = "holidays"
    /\ last.err = "ProviderError"
    /\ last.prov = {last.year}
    /\ last.year \notin DOMAIN italyCache

\* date_utils.extract_date_token: a year below 100 is taken as 2000 + y.
NormalizeYear(y) == IF y < 100 THEN y + 2000 ELSE y

\* C11: a closure-file token in an accepted layout whose year has two
\* digits is accepted by load and gives the date of year 2000 + yy: the
\* file "01/01/25" loads as {2025-01-01}.
TwoDigitYearAccepted ==
    (/\ last.op = "load"
     /\ FileOf(last.dir, last.year) \in DOMAIN fs
     /\ fs[FileOf(last.dir, last.year)] = TwoDigitText) =>
        /\ last.err = "none"
        /\ last.ret = {D(NormalizeYear(25), 1, 1)}

\* What a call of a thread returns once every line has been read.
WholeValue(th) ==
    IF th.op = "load" THEN FileDates(th.year, th.dir) ELSE ProviderDates({th.year})

\* C12: with two requests for the same key running at the same time, their
\* steps interleaved in any way, the file read or provider call for the key
\* is made at most once, and no request returns a partially written set.
ComputeOnce ==
    /\ \A k \in DOMAIN work : work[k] <= 1
    /\ \A t \in Threads :
          (threads[t].pc = "done" /\ threads[t].err = "none") =>
              threads[t].ret = WholeValue(threads[t])

\* A step keeps every cache entry: same key, same object, same elements.
EntriesKept ==
    /\ \A k \in DOMAIN closuresCache :
          k \in DOMAIN closuresCache' /\ closuresCache'[k] = closuresCache[k]
    /\ \A y \in DOMAIN italyCache :
          y \in DOMAIN italyCache' /\ italyCache'[y] = italyCache[y]

\* A call answered from the cache returns what was first computed for its key.
ReturnsFirstComputed ==
    /\ (last.op = "load" /\ last.hit) =>
          /\ last.err = "none"
          /\ last.ret = computed[<<"closures", <<last.year, Resolve(last.dir)>>>>]
    /\ (last.op = "holidays" /\ last.hit) =>
          /\ last.err = "none"
          /\ last.ret = computed[<<"italy", last.year>>]

\* C13: once a cache entry exists for a key, no later operation removes or
\* changes it, and every later load / holidays call for the key returns the
\* value first computed, also when the closure file has since been created,
\* rewritten or deleted (a cached empty set for a file missing at first
\* access included).
CacheNeverInvalidated == [][EntriesKept]_vars /\ []ReturnsFirstComputed

\* load has answered with the empty set cached when the file was missing,
\* though the file now exists and holds dates.
StaleEmptyReturned ==
    /\ last.op = "load"
    /\ last.hit
    /\ last.ret = {}
    /\ FileDates(last.year, last.dir) # {}

\* The days b at which [a, c] is split are those within SplitReach days of
\* either end.
SplitReach == 8

SplitPoints(a, c) == {b \in a..(c - 1) : b - a < SplitReach \/ c - b <= SplitReach}

\* count(a, b) with the directory and flag of the call that has returned,
\* asked now.
CountOf(a, b) ==
    CountWorkdaysInclusive(closuresCache, italyCache, a, b, last.dir, last.nbr)

\* Every date the provider or the closure file of a year Y gives lies in
\* the years Y - 1 .. Y + 1.
SourcesNearTheirYear ==
    \A Y \in ProviderYears :
        \A d \in ProviderDates({Y}) \cup FileDates(Y, last.dir) :
            YearOf(d) \in (Y - 1)..(Y + 1)

\* The two parts of [a, c] split after b add up to the whole.
AddsUp(left, right, whole) ==
    /\ left.err = "none"
    /\ right.err = "none"
    /\ left.ret + right.ret = whole

\* C14: with include_neighbor_years true, files and provider fixed, and
\* every date of year Y's sources in Y - 1 .. Y + 1, for all a <= b < c:
\* count(a, b) + count(b + 1 day, c) == count(a, c).
Additivity ==
    (CountedOk /\ last.nbr /\ last.a < last.b /\ SourcesNearTheirYear) =>
        \A b \in SplitPoints(last.a, last.b) :
            AddsUp(CountOf(last.a, b), CountOf(b + 1, last.b), last.ret)

\* A range across the turn of the year has been counted, with closure days
\* in it and working days left.
YearTurnCounted ==
    /\ CountedOk
    /\ last.nbr
    /\ SourcesNearTheirYear
    /\ fs # NoFiles
    /\ YearOf(last.a) < YearOf(last.b)
    /\ last.ret > 0
    /\ last.ret < WorkingDays(last.a, last.b, {})

=============================================================================
